---- MODULE Spec2Model ----
(***************************************************************************)
(* A model of the AI glue of the expense tracker: src/lib/ai.ts            *)
(* (generateExpenseInsights, categorizeExpenseLocally, categorizeExpense,  *)
(* generateAIAnswer) and src/app/actions/suggestCategory.ts                *)
(* (suggestCategory).                                                      *)
(*                                                                         *)
(* Texts are TLA+ strings, handled character by character with Len,        *)
(* SubSeq and \o.  A TLA+ string literal cannot hold the backtick, so the  *)
(* model writes the character "~" wherever the source has a backtick: the  *)
(* Markdown fence is "~~~".                                                *)
(*                                                                         *)
(* JavaScript values are tagged records: [t |-> "undefined"],              *)
(* [t |-> "null"], [t |-> "bool", v |-> b], [t |-> "num", v |-> n],        *)
(* [t |-> "str", v |-> s], [t |-> "arr", v |-> <<values>>] and             *)
(* [t |-> "obj", v |-> <<key, value pairs>>].  A number is held in tenths: *)
(* 0.8 is 8 and 1 is 10.                                                   *)
(***************************************************************************)
EXTENDS Integers, Sequences, FiniteSets, TLC

VARIABLES
  pc,           \* "idle", "awaiting" (suspended at the await) or "done"
  fn,           \* the public operation invoked
  description,  \* the description argument (categorizeExpense, suggestCategory)
  remote,       \* how openai.chat.completions.create settled
  wrap,         \* how the completion's text was put together (history only)
  stamps,       \* the values Date.now() gave, one per array element
  result,       \* what the operation gave its caller: a return or a throw
  remoteCalls   \* remote requests issued by the current invocation

vars == <<pc, fn, description, remote, wrap, stamps, result, remoteCalls>>

-----------------------------------------------------------------------------
(* Bounds of the model *)

\* A description is at most MaxWords words of Words, one after the other.
MaxWords == 2
\* A JSON array of the remote model has at most MaxElems elements.
MaxElems == 2
\* Date.now() advances by at most MaxDrift while one response is mapped.
MaxDrift == 1

-----------------------------------------------------------------------------
(* Strings *)

At(s, i) == SubSeq(s, i, i)

\* The whitespace of String.prototype.trim and of \s, within the alphabet.
IsSpace(c) == c \in {" ", "\n", "\t", "\r"}

RECURSIVE SkipSpace(_, _)
\* The first index >= i of s that holds no whitespace, Len(s) + 1 if none.
SkipSpace(s, i) ==
  IF i <= Len(s) /\ IsSpace(At(s, i)) THEN SkipSpace(s, i + 1) ELSE i

RECURSIVE SkipSpaceBack(_, _)
\* The last index <= i of s that holds no whitespace, 0 if none.
SkipSpaceBack(s, i) ==
  IF i >= 1 /\ IsSpace(At(s, i)) THEN SkipSpaceBack(s, i - 1) ELSE i

trim(s) == SubSeq(s, SkipSpace(s, 1), SkipSpaceBack(s, Len(s)))

startsWith(s, p) == Len(s) >= Len(p) /\ SubSeq(s, 1, Len(p)) = p

endsWith(s, p) == Len(s) >= Len(p) /\ SubSeq(s, Len(s) - Len(p) + 1, Len(s)) = p

includes(s, k) == \E i \in 1..(Len(s) - Len(k) + 1) : SubSeq(s, i, i + Len(k) - 1) = k

UpperCase == "ABCDEFGHIJKLMNOPQRSTUVWXYZ"
LowerCase == "abcdefghijklmnopqrstuvwxyz"

LowerChar(c) ==
  IF \E i \in 1..Len(UpperCase) : At(UpperCase, i) = c
  THEN At(LowerCase, CHOOSE i \in 1..Len(UpperCase) : At(UpperCase, i) = c)
  ELSE c

UpperChar(c) ==
  IF \E i \in 1..Len(LowerCase) : At(LowerCase, i) = c
  THEN At(UpperCase, CHOOSE i \in 1..Len(LowerCase) : At(LowerCase, i) = c)
  ELSE c

RECURSIVE toLowerCase(_)
toLowerCase(s) ==
  IF s = "" THEN "" ELSE LowerChar(At(s, 1)) \o toLowerCase(SubSeq(s, 2, Len(s)))

RECURSIVE toUpperCase(_)
toUpperCase(s) ==
  IF s = "" THEN "" ELSE UpperChar(At(s, 1)) \o toUpperCase(SubSeq(s, 2, Len(s)))

-----------------------------------------------------------------------------
(* What a function gives: a returned value or a thrown error *)

Return(v) == [kind |-> "return", value |-> v]
Throw(e) == [kind |-> "throw", error |-> e]

TypeError == [name |-> "TypeError"]
SyntaxError == [name |-> "SyntaxError"]
NoResponseError == [name |-> "Error", message |-> "No response from AI"]

RateLimitStatus == 429

\* error?.status === 429 || error?.code === 429
isRateLimit(error) ==
  \/ "status" \in DOMAIN error /\ error.status = RateLimitStatus
  \/ "code" \in DOMAIN error /\ error.code = RateLimitStatus

\* completion.choices[0].message.content: a TypeError when there is no choice.
hasChoice(completion) == Len(completion.choices) >= 1
hasContent(completion) == "content" \in DOMAIN completion.choices[1].message
contentOf(completion) == completion.choices[1].message.content

-----------------------------------------------------------------------------
(* categorizeExpenseLocally *)

foodKeywords == <<
  "restaurant", "food", "coffee", "lunch", "dinner", "breakfast", "cafe", "pizza",
  "burger", "sandwich", "grocery", "supermarket", "market", "bakery", "bar", "pub",
  "drink", "beer", "wine", "snack", "meal", "eat", "dining", "takeout", "delivery",
  "mcdonalds", "starbucks", "subway", "kfc", "dominos", "uber eats", "doordash",
  "grubhub", "postmates", "foodpanda", "zomato", "swiggy" >>

transportKeywords == <<
  "gas", "fuel", "petrol", "diesel", "uber", "lyft", "taxi", "bus", "train", "metro",
  "parking", "toll", "car", "vehicle", "transport", "flight", "airline", "plane",
  "airport", "rental", "maintenance", "repair", "oil change", "tire", "insurance",
  "registration", "license", "subway", "public transport", "ride share", "carpool" >>

entertainmentKeywords == <<
  "movie", "cinema", "theater", "concert", "music", "game", "gaming", "netflix",
  "spotify", "youtube", "entertainment", "fun", "party", "club", "event", "ticket",
  "show", "performance", "festival", "amusement", "park", "zoo", "museum", "gallery",
  "bowling", "pool", "arcade", "subscription", "streaming", "hulu", "disney", "prime" >>

shoppingKeywords == <<
  "amazon", "ebay", "shop", "store", "mall", "clothing", "clothes", "shoes", "dress",
  "shirt", "pants", "jacket", "electronics", "phone", "laptop", "computer", "gadget",
  "book", "furniture", "home", "decor", "gift", "present", "online", "purchase",
  "buy", "walmart", "target", "costco", "nike", "adidas", "apple", "samsung", "sony" >>

billsKeywords == <<
  "electric", "electricity", "power", "water", "gas bill", "internet", "wifi",
  "phone bill", "mobile", "cable", "tv", "utility", "utilities", "rent", "mortgage",
  "insurance", "loan", "payment", "subscription", "service", "maintenance", "repair",
  "bank", "fee", "charge", "bill", "invoice", "statement", "credit card" >>

healthcareKeywords == <<
  "doctor", "hospital", "medical", "medicine", "pharmacy", "drug", "prescription",
  "health", "dental", "dentist", "clinic", "appointment", "checkup", "surgery",
  "treatment", "therapy", "insurance", "copay", "deductible", "medication", "pills",
  "vitamins", "supplements", "nurse", "specialist", "emergency", "urgent care" >>

\* keywords.some(keyword => desc.includes(keyword))
someIncluded(keywords, desc) ==
  \E n \in 1..Len(keywords) : includes(desc, keywords[n])

categorizeExpenseLocally_BillsFirst(d) ==
  LET desc == trim(toLowerCase(d))
  IN  IF someIncluded(billsKeywords, desc) THEN "Bills"
      ELSE IF someIncluded(foodKeywords, desc) THEN "Food"
      ELSE IF someIncluded(transportKeywords, desc) THEN "Transportation"
      ELSE IF someIncluded(entertainmentKeywords, desc) THEN "Entertainment"
      ELSE IF someIncluded(shoppingKeywords, desc) THEN "Shopping"
      ELSE IF someIncluded(healthcareKeywords, desc) THEN "Healthcare"
      ELSE "Other"

categorizeExpenseLocally(d) ==
  LET desc == trim(toLowerCase(d))
  IN  IF someIncluded(foodKeywords, desc) THEN "Food"
      ELSE IF someIncluded(transportKeywords, desc) THEN "Transportation"
      ELSE IF someIncluded(entertainmentKeywords, desc) THEN "Entertainment"
      ELSE IF someIncluded(shoppingKeywords, desc) THEN "Shopping"
      ELSE IF someIncluded(billsKeywords, desc) THEN "Bills"
      ELSE IF someIncluded(healthcareKeywords, desc) THEN "Healthcare"
      ELSE "Other"

-----------------------------------------------------------------------------
(* categorizeExpense *)

validCategories ==
  <<"Food", "Transportation", "Entertainment", "Shopping", "Bills", "Healthcare", "Other">>

\* validCategories.includes(x)
isValidCategory(x) == \E n \in 1..Len(validCategories) : validCategories[n] = x

categorizeExpenseTry_Unvalidated(outcome) ==
  IF outcome.kind = "error" THEN Throw(outcome.error)
  ELSE IF ~hasChoice(outcome) THEN Throw(TypeError)
  ELSE LET category == IF hasContent(outcome) THEN trim(contentOf(outcome)) ELSE ""
       IN  Return(IF category # "" THEN category ELSE "Other")

\* The try block after the await: lines 248-263.
categorizeExpenseTry(outcome) ==
  IF outcome.kind = "error" THEN Throw(outcome.error)
  ELSE IF ~hasChoice(outcome) THEN Throw(TypeError)
  ELSE LET category == IF hasContent(outcome) THEN trim(contentOf(outcome)) ELSE ""
       IN  Return(IF isValidCategory(category) THEN category ELSE "Other")

categorizeExpenseCatch_BareDefault(d, error) ==
  IF isRateLimit(error)
  THEN Return(categorizeExpenseLocally(d))
  ELSE Return("Other")

\* The catch block: lines 264-276.
categorizeExpenseCatch(d, error) ==
  IF isRateLimit(error)
  THEN Return(categorizeExpenseLocally(d))
  ELSE Return(categorizeExpenseLocally(d))

categorizeExpense(d, outcome) ==
  LET r == categorizeExpenseTry(outcome)
  IN  IF r.kind = "throw" THEN categorizeExpenseCatch(d, r.error) ELSE r

-----------------------------------------------------------------------------
(* JavaScript values and JSON.parse *)

Undefined == [t |-> "undefined"]
Null == [t |-> "null"]
Bool(b) == [t |-> "bool", v |-> b]
Num(n) == [t |-> "num", v |-> n]
Str(s) == [t |-> "str", v |-> s]
Arr(elems) == [t |-> "arr", v |-> elems]
Obj(members) == [t |-> "obj", v |-> members]

Parsed(value, next) == [ok |-> TRUE, v |-> value, i |-> next]
NotParsed == [ok |-> FALSE]

Digits == "0123456789"
IsDigit(c) == \E n \in 1..Len(Digits) : At(Digits, n) = c
DigitValue(c) == (CHOOSE n \in 1..Len(Digits) : At(Digits, n) = c) - 1

\* Whether text p stands in s at index i.
LiteralAt(s, i, p) == i + Len(p) - 1 <= Len(s) /\ SubSeq(s, i, i + Len(p) - 1) = p

RECURSIVE ReadDigits(_, _, _)
\* The digits of s from index i on, as a number added to 10 * acc.
ReadDigits(s, i, acc) ==
  IF i <= Len(s) /\ IsDigit(At(s, i))
  THEN ReadDigits(s, i + 1, 10 * acc + DigitValue(At(s, i)))
  ELSE [n |-> acc, i |-> i]

\* A JSON number without exponent and with at most one fractional digit, in
\* tenths: -? (0 | [1-9][0-9]*) (. [0-9])?
ParseNumber(s, i) ==
  LET neg == LiteralAt(s, i, "-")
      j == IF neg THEN i + 1 ELSE i
      whole == ReadDigits(s, j, 0)
      sign == IF neg THEN -1 ELSE 1
  IN  IF whole.i = j THEN NotParsed
      ELSE IF LiteralAt(s, j, "0") /\ whole.i > j + 1 THEN NotParsed
      ELSE IF LiteralAt(s, whole.i, ".")
      THEN IF whole.i + 1 <= Len(s) /\ IsDigit(At(s, whole.i + 1))
                /\ ~(whole.i + 2 <= Len(s) /\ IsDigit(At(s, whole.i + 2)))
           THEN Parsed(Num(sign * (10 * whole.n + DigitValue(At(s, whole.i + 1)))),
                       whole.i + 2)
           ELSE NotParsed
      ELSE Parsed(Num(sign * 10 * whole.n), whole.i)

RECURSIVE StringEnd(_, _)
\* The index of the quote that closes the string whose text starts at i; 0 when
\* the string is not closed or holds a raw control character or an escape.
StringEnd(s, i) ==
  IF i > Len(s) THEN 0
  ELSE IF At(s, i) = "\"" THEN i
  ELSE IF At(s, i) \in {"\n", "\t", "\r", "\\"} THEN 0
  ELSE StringEnd(s, i + 1)

ParseString(s, i) ==
  LET e == StringEnd(s, i + 1)
  IN  IF LiteralAt(s, i, "\"") /\ e > 0
      THEN Parsed(Str(SubSeq(s, i + 1, e - 1)), e + 1)
      ELSE NotParsed

RECURSIVE ParseValue(_, _)
RECURSIVE ParseElements(_, _, _)
RECURSIVE ParseMembers(_, _, _)

\* The elements of an array from index i on, after those of acc.
ParseElements(s, i, acc) ==
  LET e == ParseValue(s, i)
  IN  IF ~e.ok THEN NotParsed
      ELSE LET j == SkipSpace(s, e.i)
           IN  IF LiteralAt(s, j, "]") THEN Parsed(Arr(Append(acc, e.v)), j + 1)
               ELSE IF LiteralAt(s, j, ",")
               THEN ParseElements(s, SkipSpace(s, j + 1), Append(acc, e.v))
               ELSE NotParsed

\* The members of an object from index i on, after those of acc.
ParseMembers(s, i, acc) ==
  LET k == ParseString(s, i)
  IN  IF ~k.ok THEN NotParsed
      ELSE LET c == SkipSpace(s, k.i)
           IN  IF ~LiteralAt(s, c, ":") THEN NotParsed
               ELSE LET m == ParseValue(s, SkipSpace(s, c + 1))
                    IN  IF ~m.ok THEN NotParsed
                        ELSE LET j == SkipSpace(s, m.i)
                                 all == Append(acc, <<k.v.v, m.v>>)
                             IN  IF LiteralAt(s, j, "}") THEN Parsed(Obj(all), j + 1)
                                 ELSE IF LiteralAt(s, j, ",")
                                 THEN ParseMembers(s, SkipSpace(s, j + 1), all)
                                 ELSE NotParsed

ParseValue(s, i) ==
  IF LiteralAt(s, i, "null") THEN Parsed(Null, i + 4)
  ELSE IF LiteralAt(s, i, "true") THEN Parsed(Bool(TRUE), i + 4)
  ELSE IF LiteralAt(s, i, "false") THEN Parsed(Bool(FALSE), i + 5)
  ELSE IF LiteralAt(s, i, "\"") THEN ParseString(s, i)
  ELSE IF LiteralAt(s, i, "[")
  THEN LET j == SkipSpace(s, i + 1)
       IN  IF LiteralAt(s, j, "]") THEN Parsed(Arr(<<>>), j + 1)
           ELSE ParseElements(s, j, <<>>)
  ELSE IF LiteralAt(s, i, "{")
  THEN LET j == SkipSpace(s, i + 1)
       IN  IF LiteralAt(s, j, "}") THEN Parsed(Obj(<<>>), j + 1)
           ELSE ParseMembers(s, j, <<>>)
  ELSE ParseNumber(s, i)

\* JSON.parse(text): the value, or a SyntaxError.
JSONParse(text) ==
  LET r == ParseValue(text, SkipSpace(text, 1))
  IN  IF r.ok /\ SkipSpace(text, r.i) = Len(text) + 1
      THEN Return(r.v)
      ELSE Throw(SyntaxError)

\* value.key for a value that is neither null nor undefined: the last member of
\* that name of an object, undefined for anything else.
getProp(value, key) ==
  IF value.t = "obj" /\ \E n \in 1..Len(value.v) : value.v[n][1] = key
  THEN LET last == CHOOSE n \in 1..Len(value.v) :
                     /\ value.v[n][1] = key
                     /\ \A m \in (n + 1)..Len(value.v) : value.v[m][1] # key
       IN  value.v[last][2]
  ELSE Undefined

\* Whether a value counts as true in a || b.
truthy(value) ==
  CASE value.t = "undefined" -> FALSE
    [] value.t = "null" -> FALSE
    [] value.t = "bool" -> value.v
    [] value.t = "num" -> value.v # 0
    [] value.t = "str" -> value.v # ""
    [] OTHER -> TRUE

\* a || b
orElse(a, b) == IF truthy(a) THEN a ELSE b

-----------------------------------------------------------------------------
(* generateExpenseInsights *)

Fence == "~~~"
JsonFence == "~~~json"

\* .replace(/^~~~json\s*/, '') and .replace(/^~~~\s*/, '') on a text that starts
\* with the prefix.
stripOpening(s, prefix) == SubSeq(s, SkipSpace(s, Len(prefix) + 1), Len(s))

\* .replace(/\s*~~~$/, '')
stripClosing(s) ==
  IF endsWith(s, Fence) THEN SubSeq(s, 1, SkipSpaceBack(s, Len(s) - Len(Fence))) ELSE s

cleanResponse_JsonFenceOnly(response) ==
  LET cleanedResponse == trim(response)
  IN  IF startsWith(cleanedResponse, JsonFence)
      THEN stripClosing(stripOpening(cleanedResponse, JsonFence))
      ELSE cleanedResponse

\* Lines 93-102.
cleanResponse(response) ==
  LET cleanedResponse == trim(response)
  IN  IF startsWith(cleanedResponse, JsonFence)
      THEN stripClosing(stripOpening(cleanedResponse, JsonFence))
      ELSE IF startsWith(cleanedResponse, Fence)
      THEN stripClosing(stripOpening(cleanedResponse, Fence))
      ELSE cleanedResponse

DefaultConfidence == 8
RateLimitConfidence == 7
FallbackConfidence == 5

insightId(now, index) == "ai-" \o ToString(now) \o "-" \o ToString(index)

\* The callback of insights.map, lines 109-116; index counts from 0.
formatInsight(insight, index, now) ==
  [ id |-> insightId(now, index),
    type |-> orElse(getProp(insight, "type"), Str("info")),
    title |-> orElse(getProp(insight, "title"), Str("AI Insight")),
    message |-> orElse(getProp(insight, "message"), Str("Analysis complete")),
    action |-> getProp(insight, "action"),
    confidence |-> orElse(getProp(insight, "confidence"), Num(DefaultConfidence)) ]

\* insights.map(...): a TypeError when insights is no array, or when an element
\* is null (the callback reads a property of it).
formatInsights(insights, nows) ==
  IF insights.t # "arr" THEN Throw(TypeError)
  ELSE IF \E n \in 1..Len(insights.v) : insights.v[n].t = "null" THEN Throw(TypeError)
  ELSE Return([n \in 1..Len(insights.v) |-> formatInsight(insights.v[n], n - 1, nows[n])])

\* The try block after the await: lines 87-119.
generateExpenseInsightsTry(outcome, nows) ==
  IF outcome.kind = "error" THEN Throw(outcome.error)
  ELSE IF ~hasChoice(outcome) THEN Throw(TypeError)
  ELSE IF ~hasContent(outcome) \/ contentOf(outcome) = "" THEN Throw(NoResponseError)
  ELSE LET insights == JSONParse(cleanResponse(contentOf(outcome)))
       IN  IF insights.kind = "throw" THEN insights
           ELSE formatInsights(insights.value, nows)

rateLimitInsight ==
  [ id |-> "fallback-rate-limit",
    type |-> Str("warning"),
    title |-> Str("AI Analysis Rate Limited"),
    message |-> Str("AI service is temporarily rate limited. Your expenses are still being tracked normally. Try refreshing in a few minutes."),
    action |-> Str("Try again later"),
    confidence |-> Num(RateLimitConfidence) ]

unavailableInsight ==
  [ id |-> "fallback-1",
    type |-> Str("info"),
    title |-> Str("AI Analysis Unavailable"),
    message |-> Str("Unable to generate personalized insights at this time. Please try again later."),
    action |-> Str("Refresh insights"),
    confidence |-> Num(FallbackConfidence) ]

generateExpenseInsightsCatch_StatusOnly(error) ==
  IF "status" \in DOMAIN error /\ error.status = RateLimitStatus
  THEN Return(<<rateLimitInsight>>)
  ELSE Return(<<unavailableInsight>>)

\* The catch block: lines 120-150.
generateExpenseInsightsCatch(error) ==
  IF isRateLimit(error) THEN Return(<<rateLimitInsight>>) ELSE Return(<<unavailableInsight>>)

generateExpenseInsights_RemoteErrorsOnly(outcome, nows) ==
  LET r == generateExpenseInsightsTry(outcome, nows)
  IN  IF r.kind = "throw" /\ outcome.kind = "error"
      THEN generateExpenseInsightsCatch(r.error)
      ELSE r

generateExpenseInsights(outcome, nows) ==
  LET r == generateExpenseInsightsTry(outcome, nows)
  IN  IF r.kind = "throw" THEN generateExpenseInsightsCatch(r.error) ELSE r

-----------------------------------------------------------------------------
(* generateAIAnswer *)

rateLimitAnswer ==
  "The AI service is currently rate limited. Your question will be answered once the service is available again. Please try again in a few minutes."

unavailableAnswer ==
  "I'm unable to provide a detailed answer at the moment. Please try refreshing the insights or check your connection."

\* The try block after the await: lines 321-326.
generateAIAnswerTry(outcome) ==
  IF outcome.kind = "error" THEN Throw(outcome.error)
  ELSE IF ~hasChoice(outcome) THEN Throw(TypeError)
  ELSE IF ~hasContent(outcome) \/ contentOf(outcome) = "" THEN Throw(NoResponseError)
  ELSE Return(trim(contentOf(outcome)))

generateAIAnswerCatch_AlwaysGeneric(error) == Return(unavailableAnswer)

\* The catch block: lines 327-336.
generateAIAnswerCatch(error) ==
  IF isRateLimit(error) THEN Return(rateLimitAnswer) ELSE Return(unavailableAnswer)

generateAIAnswer(outcome) ==
  LET r == generateAIAnswerTry(outcome)
  IN  IF r.kind = "throw" THEN generateAIAnswerCatch(r.error) ELSE r

-----------------------------------------------------------------------------
(* suggestCategory *)

\* !description || description.trim().length < 2, line 9
tooShort(d) == d = "" \/ Len(trim(d)) < 2

tooShortResult == [category |-> "Other", error |-> "Description too short for analysis"]

suggestCategoryAnswer_OtherIsUndetermined(category) ==
  IF category # "" /\ category # "Other" THEN Return([category |-> category])
  ELSE Return([category |-> "Other", error |-> "Could not determine category"])

\* Lines 19-29, once categorizeExpense has returned category.
suggestCategoryAnswer(category) ==
  IF category # "" /\ category # "Other" THEN Return([category |-> category])
  ELSE IF category = "Other" THEN Return([category |-> category])
  ELSE Return([category |-> "Other", error |-> "Could not determine category"])

\* The catch block: lines 30-45.
suggestCategoryCatch(error) ==
  IF isRateLimit(error)
  THEN Return([category |-> "Other",
               error |-> "AI service rate limited, using fallback categorization"])
  ELSE Return([category |-> "Other", error |-> "Unable to suggest category at this time"])

\* suggestCategory from the await of categorizeExpense(description.trim()) on.
suggestCategoryResume(d, outcome) ==
  LET r == categorizeExpense(trim(d), outcome)
  IN  IF r.kind = "throw" THEN suggestCategoryCatch(r.error)
      ELSE suggestCategoryAnswer(r.value)

-----------------------------------------------------------------------------
(* The inputs *)

\* Blanks, a letter, a word no keyword is in, and words with keywords of every
\* set, some of several sets ("Subway": Food and Transportation; "gas bill":
\* Transportation and Bills) and some in upper case.
Words == <<
  " ", "a", "xyz", "Dinner ", "restaurant", "BILL ", "Subway", "gas bill",
  "Zoo", "ebay", "drug" >>

RECURSIVE Phrases(_)
\* The texts of at most n words.
Phrases(n) ==
  IF n = 0 THEN {""}
  ELSE LET shorter == Phrases(n - 1)
       IN  shorter \cup {p \o Words[w] : p \in shorter, w \in 1..Len(Words)}

Descriptions == Phrases(MaxWords)

NoArg == "<none>"

Message(text) == [role |-> "assistant", content |-> text]
Completion(text) == [kind |-> "completion", choices |-> <<[message |-> Message(text)]>>]
NoContent == [kind |-> "completion", choices |-> <<[message |-> [role |-> "assistant"]]>>]
NoChoices == [kind |-> "completion", choices |-> <<>>]
Failure(e) == [kind |-> "error", error |-> e]

RemoteErrors == {
  [name |-> "RateLimitError", status |-> 429],
  [name |-> "Error", code |-> 429],
  [name |-> "InternalServerError", status |-> 500],
  [name |-> "APIConnectionError"] }

\* The outcomes that carry no text.
BareOutcomes == {NoContent, NoChoices} \cup {Failure(e) : e \in RemoteErrors}

CategoryTexts == {"Food", " Bills\n", "food", "Groceries", "Other", ""}

CategoryOutcomes == {Completion(t) : t \in CategoryTexts} \cup BareOutcomes

AnswerTexts == {"You spent 40 on food.", "  Cut the coffee. \n", "   ", ""}

AnswerOutcomes == {Completion(t) : t \in AnswerTexts} \cup BareOutcomes

\* The elements a JSON array of the remote model is made of.
ElementTexts == <<
  "{\"type\":\"tip\",\"title\":\"T\",\"message\":\"M\",\"action\":\"A\",\"confidence\":0.9}",
  "{\"type\": \"warning\", \"title\": \"T\", \"message\": \"M\"}",
  "{\"type\":\"danger\",\"confidence\":5}",
  "{\"type\":\"success\",\"title\":\"\",\"message\":\"M\",\"confidence\":0}",
  "{}",
  "null",
  "7" >>

RECURSIVE ElementLists(_)
\* The comma-separated lists of 1 to n elements.
ElementLists(n) ==
  IF n = 1 THEN {ElementTexts[e] : e \in 1..Len(ElementTexts)}
  ELSE LET shorter == ElementLists(n - 1)
       IN  shorter \cup {l \o "," \o ElementTexts[e] : l \in shorter, e \in 1..Len(ElementTexts)}

\* The JSON array texts of at most MaxElems elements.
ArrayTexts == {"[]"} \cup {"[" \o l \o "]" : l \in ElementLists(MaxElems)}

\* Texts that are no JSON, or JSON but no array.
OtherTexts == {
  "Here are your insights.",
  "[{\"type\":\"tip\"},]",
  "{\"type\":\"tip\",\"confidence\":0.9}",
  "\"tip\"",
  "null",
  "0.8",
  "   " }

\* The fences the claim is about: an opening fence followed by whitespace, a
\* closing fence preceded by whitespace.
Fenced == {
  [open |-> "~~~json\n", close |-> "\n~~~"],
  [open |-> "~~~\n", close |-> "\n~~~"],
  [open |-> " ~~~json \n", close |-> "\n ~~~\n"] }

\* The other ways a body is wrapped: not at all, or in half a fence.
Unfenced == {
  [open |-> "", close |-> ""],
  [open |-> " ", close |-> "\n"],
  [open |-> "~~~json\n", close |-> ""],
  [open |-> "", close |-> "\n~~~"] }

Wraps == {[open |-> w.open, body |-> b, close |-> w.close] :
            w \in Fenced \cup Unfenced, b \in ArrayTexts \cup OtherTexts}

TextOf(w) == w.open \o w.body \o w.close

NoRemote == [kind |-> "none"]
NoWrap == [open |-> "", body |-> "", close |-> ""]
NoResult == [kind |-> "none"]

\* How many times the callback of insights.map runs on a completion: the number
\* of elements of the array its text holds.
elementCount(outcome) ==
  IF outcome.kind = "completion" /\ hasChoice(outcome) /\ hasContent(outcome)
  THEN LET parsed == JSONParse(cleanResponse(contentOf(outcome)))
       IN  IF parsed.kind = "return" /\ parsed.value.t = "arr"
           THEN Len(parsed.value.v) ELSE 0
  ELSE 0

\* What n successive readings of Date.now() may give: the clock never goes back.
Readings(n) ==
  {r \in [1..n -> 0..MaxDrift] : \A i \in 1..n, j \in 1..n : i <= j => r[i] <= r[j]}

-----------------------------------------------------------------------------
(* The state machine *)

Init ==
  /\ pc = "idle"
  /\ fn = "none"
  /\ description = NoArg
  /\ remote = NoRemote
  /\ wrap = NoWrap
  /\ stamps = <<>>
  /\ result = NoResult
  /\ remoteCalls = 0

\* A caller invokes generateExpenseInsights(expenses): the function builds its
\* prompt and runs to its await.
Call_generateExpenseInsights ==
  /\ pc = "idle"
  /\ pc' = "awaiting"
  /\ fn' = "generateExpenseInsights"
  /\ remoteCalls' = 1
  /\ UNCHANGED <<description, remote, wrap, stamps, result>>

\* The remote call fails or gives a completion without text.
Settle_generateExpenseInsights_Bare ==
  /\ pc = "awaiting"
  /\ fn = "generateExpenseInsights"
  /\ \E outcome \in BareOutcomes :
       /\ remote' = outcome
       /\ result' = generateExpenseInsights(outcome, <<>>)
  /\ pc' = "done"
  /\ UNCHANGED <<fn, description, wrap, stamps, remoteCalls>>

\* The remote call gives a completion with a text.
Settle_generateExpenseInsights_Text ==
  /\ pc = "awaiting"
  /\ fn = "generateExpenseInsights"
  /\ \E w \in Wraps :
       LET outcome == Completion(TextOf(w))
       IN  /\ wrap' = w
           /\ remote' = outcome
           /\ \E nows \in Readings(elementCount(outcome)) :
                /\ stamps' = nows
                /\ result' = generateExpenseInsights(outcome, nows)
  /\ pc' = "done"
  /\ UNCHANGED <<fn, description, remoteCalls>>

\* A caller invokes categorizeExpense(d): the function runs to its await.
Call_categorizeExpense ==
  /\ pc = "idle"
  /\ \E d \in Descriptions : description' = d
  /\ pc' = "awaiting"
  /\ fn' = "categorizeExpense"
  /\ remoteCalls' = 1
  /\ UNCHANGED <<remote, wrap, stamps, result>>

\* The remote call settles and categorizeExpense runs to its end.
Settle_categorizeExpense ==
  /\ pc = "awaiting"
  /\ fn = "categorizeExpense"
  /\ \E outcome \in CategoryOutcomes :
       /\ remote' = outcome
       /\ result' = categorizeExpense(description, outcome)
  /\ pc' = "done"
  /\ UNCHANGED <<fn, description, wrap, stamps, remoteCalls>>

\* A caller invokes generateAIAnswer(question, context): the function builds
\* its prompt and runs to its await.
Call_generateAIAnswer ==
  /\ pc = "idle"
  /\ pc' = "awaiting"
  /\ fn' = "generateAIAnswer"
  /\ remoteCalls' = 1
  /\ UNCHANGED <<description, remote, wrap, stamps, result>>

Settle_generateAIAnswer ==
  /\ pc = "awaiting"
  /\ fn = "generateAIAnswer"
  /\ \E outcome \in AnswerOutcomes :
       /\ remote' = outcome
       /\ result' = generateAIAnswer(outcome)
  /\ pc' = "done"
  /\ UNCHANGED <<fn, description, wrap, stamps, remoteCalls>>

\* A caller invokes suggestCategory(d): it returns at once when d is too short,
\* and otherwise runs to the await inside categorizeExpense.
Call_suggestCategory ==
  /\ pc = "idle"
  /\ fn' = "suggestCategory"
  /\ \E d \in Descriptions :
       /\ description' = d
       /\ IF tooShort(d)
          THEN /\ pc' = "done"
               /\ result' = Return(tooShortResult)
               /\ remoteCalls' = 0
          ELSE /\ pc' = "awaiting"
               /\ result' = result
               /\ remoteCalls' = 1
  /\ UNCHANGED <<remote, wrap, stamps>>

Settle_suggestCategory ==
  /\ pc = "awaiting"
  /\ fn = "suggestCategory"
  /\ \E outcome \in CategoryOutcomes :
       /\ remote' = outcome
       /\ result' = suggestCategoryResume(description, outcome)
  /\ pc' = "done"
  /\ UNCHANGED <<fn, description, wrap, stamps, remoteCalls>>

\* The caller has its result; the next invocation starts from a clean slate
\* (no operation keeps anything from one call to the next).
Finish ==
  /\ pc = "done"
  /\ pc' = "idle"
  /\ fn' = "none"
  /\ description' = NoArg
  /\ remote' = NoRemote
  /\ wrap' = NoWrap
  /\ stamps' = <<>>
  /\ result' = NoResult
  /\ remoteCalls' = 0

Next ==
  \/ Call_generateExpenseInsights
  \/ Settle_generateExpenseInsights_Bare
  \/ Settle_generateExpenseInsights_Text
  \/ Call_categorizeExpense
  \/ Settle_categorizeExpense
  \/ Call_generateAIAnswer
  \/ Settle_generateAIAnswer
  \/ Call_suggestCategory
  \/ Settle_suggestCategory
  \/ Finish

Spec == Init /\ [][Next]_vars

-----------------------------------------------------------------------------
(* The claims *)

Done(name) == pc = "done" /\ fn = name

\* The remote call gave a completion that carries a text (possibly empty).
HasText == remote.kind = "completion" /\ hasChoice(remote) /\ hasContent(remote)

\* The caught error carries status or code 429.
RateLimited == remote.kind = "error" /\ isRateLimit(remote.error)

\* C1: every public operation returns a value to its caller and never raises,
\* whatever the remote call gave: a text, no text, no choice, a 429 error, any
\* other error, text that is no JSON, JSON that is no array, an array holding
\* null or elements that are no objects.
C1_Total == pc = "done" => result.kind = "return"

\* An array holding null made the callback of map throw, and the operation
\* still returned.
C1_Witness ==
  /\ Done("generateExpenseInsights")
  /\ wrap.body = "[null]"
  /\ result.kind = "return"

\* C2: when the remote call of categorizeExpense fails, with 429 or anything
\* else, the value returned is the one categorizeExpenseLocally gives for the
\* same description.
C2_FallbackIsLocal ==
  Done("categorizeExpense") /\ remote.kind = "error"
    => result = Return(categorizeExpenseLocally(description))

\* An error that is no rate limit, on a description the classifier puts in Food.
C2_Witness ==
  /\ Done("categorizeExpense")
  /\ remote.kind = "error"
  /\ ~isRateLimit(remote.error)
  /\ description = "Dinner restaurant"
  /\ result = Return("Food")

Categories ==
  {"Food", "Transportation", "Entertainment", "Shopping", "Bills", "Healthcare", "Other"}

\* C3: categorizeExpense always returns a member of the closed category set; a
\* remote text whose trimmed form is a member is returned as is, and any other
\* text, or no text, gives "Other".
C3_ClosedCategory ==
  Done("categorizeExpense") =>
    /\ result.kind = "return"
    /\ result.value \in Categories
    /\ remote.kind = "completion" /\ hasChoice(remote) =>
         IF hasContent(remote) /\ trim(contentOf(remote)) \in Categories
         THEN result.value = trim(contentOf(remote))
         ELSE result.value = "Other"

\* A member in the wrong letter case is coerced.
C3_Witness ==
  /\ Done("categorizeExpense")
  /\ remote = Completion("food")
  /\ result = Return("Other")

\* The keyword sets in the order the claim gives them.
PriorityOrder == <<
  [category |-> "Food", keywords |-> foodKeywords],
  [category |-> "Transportation", keywords |-> transportKeywords],
  [category |-> "Entertainment", keywords |-> entertainmentKeywords],
  [category |-> "Shopping", keywords |-> shoppingKeywords],
  [category |-> "Bills", keywords |-> billsKeywords],
  [category |-> "Healthcare", keywords |-> healthcareKeywords] >>

\* The places in PriorityOrder of the sets with a keyword inside the lowercased,
\* trimmed description.
MatchingSets(d) ==
  {n \in 1..Len(PriorityOrder) :
     someIncluded(PriorityOrder[n].keywords, trim(toLowerCase(d)))}

\* The category of the first matching set, given the matching places.
FirstOf(matching) ==
  IF matching = {} THEN "Other"
  ELSE PriorityOrder[CHOOSE n \in matching : \A m \in matching : n <= m].category

\* C4: categorizeExpenseLocally gives the category of the first keyword set, in
\* the order Food, Transportation, Entertainment, Shopping, Bills, Healthcare,
\* with a keyword inside the lowercased, trimmed description, and "Other" when
\* there is none; so an empty or blank description gives "Other", letter case
\* changes nothing, and Food wins over Bills.  Seen where the classifier acts:
\* the fallback of categorizeExpense.
C4_FirstKeywordSet ==
  Done("categorizeExpense") /\ (remote.kind = "error" \/ ~hasChoice(remote)) =>
    LET matching == MatchingSets(description)
    IN  /\ result = Return(FirstOf(matching))
        /\ trim(description) = "" => result.value = "Other"
        /\ categorizeExpenseLocally(toUpperCase(description)) = result.value
        /\ categorizeExpenseLocally(toLowerCase(description)) = result.value
        /\ {1, 5} \subseteq matching => result.value = "Food"

\* A description with a Food and a Bills keyword, in mixed case.
C4_Witness ==
  /\ Done("categorizeExpense")
  /\ remote.kind = "error"
  /\ description = "BILL restaurant"
  /\ {1, 5} \subseteq MatchingSets(description)
  /\ result = Return("Food")

\* generateExpenseInsights fails: the remote call fails, gives no choice or no
\* text, or gives a text that is no JSON array of elements other than null.
InsightsFail ==
  \/ ~HasText
  \/ contentOf(remote) = ""
  \/ LET parsed == JSONParse(cleanResponse(contentOf(remote)))
     IN  \/ parsed.kind = "throw"
         \/ parsed.value.t # "arr"
         \/ \E n \in 1..Len(parsed.value.v) : parsed.value.v[n].t = "null"

\* C5: a failing generateExpenseInsights returns exactly one insight:
\* "fallback-rate-limit", a warning of confidence 0.7, when the caught error has
\* status or code 429, and "fallback-1", an info of confidence 0.5, otherwise.
C5_Fallbacks ==
  Done("generateExpenseInsights") /\ InsightsFail =>
    /\ result.kind = "return"
    /\ Len(result.value) = 1
    /\ IF RateLimited
       THEN /\ result.value[1].id = "fallback-rate-limit"
            /\ result.value[1].type = Str("warning")
            /\ result.value[1].confidence = Num(7)
       ELSE /\ result.value[1].id = "fallback-1"
            /\ result.value[1].type = Str("info")
            /\ result.value[1].confidence = Num(5)

\* The rate limit announced by the error's code rather than its status.
C5_Witness ==
  /\ Done("generateExpenseInsights")
  /\ remote.kind = "error"
  /\ "code" \in DOMAIN remote.error
  /\ result.value[1].id = "fallback-rate-limit"

\* C6: every insight generateExpenseInsights returns has a type among warning,
\* info, success, tip and a confidence between 0 and 1.
C6_TypeAndConfidence ==
  Done("generateExpenseInsights") /\ result.kind = "return" =>
    \A n \in 1..Len(result.value) :
      /\ result.value[n].type.t = "str"
      /\ result.value[n].type.v \in {"warning", "info", "success", "tip"}
      /\ result.value[n].confidence.t = "num"
      /\ result.value[n].confidence.v \in 0..10

\* Whether an element of the remote array supplies a field.
Supplies(element, key) ==
  element.t = "obj" /\ \E n \in 1..Len(element.v) : element.v[n][1] = key

\* The value an element supplies for a field.
Supplied(element, key) ==
  element.v[CHOOSE n \in 1..Len(element.v) : element.v[n][1] = key][2]

SameValue(a, b) == a.t = b.t /\ (a.t \in {"undefined", "null"} \/ a.v = b.v)

\* An insight field is the element's own value when supplied, the default when not.
OwnOrDefault(field, element, key, default) ==
  IF Supplies(element, key) THEN SameValue(field, Supplied(element, key))
  ELSE SameValue(field, default)

\* C7: on a text that parses as a JSON array, generateExpenseInsights returns
\* one insight per element, in order; type, title, message and confidence are
\* the element's own when it supplies them and the defaults "info",
\* "AI Insight", "Analysis complete", 0.8 only when it does not; the
\* identifiers of the sequence are pairwise distinct.
C7_OnePerElement ==
  Done("generateExpenseInsights") /\ HasText /\ contentOf(remote) # "" =>
    LET parsed == JSONParse(cleanResponse(contentOf(remote)))
    IN  parsed.kind = "return" /\ parsed.value.t = "arr" =>
          /\ result.kind = "return"
          /\ Len(result.value) = Len(parsed.value.v)
          /\ \A n \in 1..Len(result.value) :
               /\ OwnOrDefault(result.value[n].type, parsed.value.v[n], "type", Str("info"))
               /\ OwnOrDefault(result.value[n].title, parsed.value.v[n], "title",
                               Str("AI Insight"))
               /\ OwnOrDefault(result.value[n].message, parsed.value.v[n], "message",
                               Str("Analysis complete"))
               /\ OwnOrDefault(result.value[n].confidence, parsed.value.v[n], "confidence",
                               Num(8))
          /\ \A n \in 1..Len(result.value), m \in 1..Len(result.value) :
               n # m => result.value[n].id # result.value[m].id

\* An insight without its identifier.
WithoutId(insight) == [f \in DOMAIN insight \ {"id"} |-> insight[f]]

\* What generateExpenseInsights returns on a text, identifiers aside.
InsightsOf(text) ==
  LET outcome == Completion(text)
      given == generateExpenseInsights(outcome, [n \in 1..elementCount(outcome) |-> 0])
  IN  [n \in 1..Len(given.value) |-> WithoutId(given.value[n])]

\* Whether a text is a JSON array text.
IsArrayText(text) ==
  LET parsed == JSONParse(text)
  IN  parsed.kind = "return" /\ parsed.value.t = "arr"

\* C8: a JSON array text wrapped in a Markdown fence (the opening fence, with
\* or without json, followed by whitespace; the closing fence preceded by
\* whitespace) gives the insights the text gives unwrapped, the timestamps of
\* the identifiers aside.
C8_FenceIsTransparent ==
  /\ Done("generateExpenseInsights")
  /\ [open |-> wrap.open, close |-> wrap.close] \in Fenced
  /\ IsArrayText(wrap.body)
  => /\ result.kind = "return"
     /\ [n \in 1..Len(result.value) |-> WithoutId(result.value[n])] = InsightsOf(wrap.body)
     /\ \A n \in 1..Len(result.value) :
          result.value[n].id \in {insightId(now, n - 1) : now \in 0..MaxDrift}
                                   \cup {"fallback-1"}

\* A fence without json around two elements, both formatted.
C8_Witness ==
  /\ Done("generateExpenseInsights")
  /\ wrap.open = "~~~\n"
  /\ wrap.close = "\n~~~"
  /\ wrap.body = "[{},7]"
  /\ Len(result.value) = 2
  /\ result.value[2].id \in {"ai-0-1", "ai-1-1"}

\* C9: generateAIAnswer returns the trimmed text of a completion that has one,
\* the rate-limit advisory on a caught error with status or code 429, and the
\* retry advisory on every other failure; it never raises.
C9_ThreeOutcomes ==
  Done("generateAIAnswer") =>
    /\ result.kind = "return"
    /\ IF HasText /\ contentOf(remote) # "" THEN result.value = trim(contentOf(remote))
       ELSE IF RateLimited THEN result.value = rateLimitAnswer
       ELSE result.value = unavailableAnswer
    /\ rateLimitAnswer # unavailableAnswer

\* The rate-limit advisory.
C9_Witness ==
  /\ Done("generateAIAnswer")
  /\ RateLimited
  /\ result = Return(rateLimitAnswer)

\* C10: suggestCategory returns an error description exactly when the
\* description is empty or shorter than 2 characters once trimmed, then with
\* category "Other" and without a remote call; for a longer description it
\* returns the category categorizeExpense gives for the trimmed description
\* and no error, whatever the remote call gave.
C10_ErrorIffTooShort ==
  LET short == description = "" \/ Len(trim(description)) < 2
  IN  /\ fn = "suggestCategory" /\ pc = "awaiting" => ~short /\ remoteCalls = 1
      /\ Done("suggestCategory") =>
           /\ result.kind = "return"
           /\ "error" \in DOMAIN result.value <=> short
           /\ short => /\ result.value.category = "Other"
                       /\ remoteCalls = 0
                       /\ remote = NoRemote
           /\ ~short =>
                result.value = [category |-> categorizeExpense(trim(description), remote).value]

\* A rate limit on a description no keyword matches: "Other", and no error.
C10_Witness ==
  /\ Done("suggestCategory")
  /\ RateLimited
  /\ description = "xyz"
  /\ result = Return([category |-> "Other"])

====
